---- MODULE Spec2Model ----
(***************************************************************************)
(* Model of the alphaops-cme-sandbox webhook receiver.                      *)
(*                                                                         *)
(*   src/app/app.py : ingest (POST /ingest, /ingest/test), ready            *)
(*                    (GET /_/ready), get_supabase, log_line, send_discord, *)
(*                    the pydantic model CmeRsiPayload                      *)
(*   src/app.py     : ingest_tv (POST /ingest/test), upsert_cme_to_supabase *)
(*                                                                         *)
(* Every request is a task of the event loop.  A task moves through the     *)
(* statements of its handler; the outcome of every external collaborator    *)
(* (log file, storage client, chat webhook) is a nondeterministic choice.   *)
(*                                                                         *)
(* JSON values are tagged records; strings are sequences of one-character   *)
(* strings so that str.strip() and float(str) are computed, not assumed.    *)
(* Floats are modelled by integers carrying the tag "float".                *)
(***************************************************************************)
EXTENDS Integers, Sequences, FiniteSets, TLC

VARIABLES
    cfg,      \* the module-level environment constants (fixed at import time)
    _sb,      \* src/app/app.py: the lazily built storage client, 0 = None
    created,  \* number of client handles create_client has returned so far
    tasks     \* one record per request slot of the event loop

vars == <<cfg, _sb, created, tasks>>

----------------------------------------------------------------------------
(* Bounds of the model *)

\* largest JSON number a request carries in a numeric field
MaxNum == 1
\* number of concurrently running requests in SpecConc
NumTasks == 2

----------------------------------------------------------------------------
(* JSON / Python values *)

Null == [t |-> "null", s |-> <<>>, n |-> 0]
Str(s) == [t |-> "str", s |-> s, n |-> 0]
Num(n) == [t |-> "int", s |-> <<>>, n |-> n]
Float(n) == [t |-> "float", s |-> <<>>, n |-> n]

\* a JSON object / Python dict: a function from its keys
EmptyObj == [k \in {} |-> Null]

\* dict.get(key): None when the key is absent
Get(d, key) == IF key \in DOMAIN d THEN d[key] ELSE Null

\* Python truthiness of a value (None, "", 0 and 0.0 are falsy)
Truthy(v) ==
    CASE v.t = "null" -> FALSE
      [] v.t = "str" -> Len(v.s) > 0
      [] OTHER -> v.n # 0

\* Python's `a or b`
Or(a, b) == IF Truthy(a) THEN a ELSE b

IsSpace(c) == c = " "

RECURSIVE LStrip(_)
LStrip(s) == IF s # <<>> /\ IsSpace(Head(s)) THEN LStrip(Tail(s)) ELSE s

RECURSIVE RStrip(_)
RStrip(s) ==
    IF s # <<>> /\ IsSpace(s[Len(s)]) THEN RStrip(SubSeq(s, 1, Len(s) - 1)) ELSE s

\* str.strip()
Strip(s) == RStrip(LStrip(s))

Digits == {"0", "1", "2", "3", "4", "5", "6", "7", "8", "9"}

DigitVal(c) ==
    CASE c = "0" -> 0 [] c = "1" -> 1 [] c = "2" -> 2 [] c = "3" -> 3
      [] c = "4" -> 4 [] c = "5" -> 5 [] c = "6" -> 6 [] c = "7" -> 7
      [] c = "8" -> 8 [] OTHER -> 9

RECURSIVE DigitsVal(_)
DigitsVal(s) ==
    IF s = <<>> THEN 0
    ELSE 10 * DigitsVal(SubSeq(s, 1, Len(s) - 1)) + DigitVal(s[Len(s)])

\* whether float(str) succeeds: surrounding whitespace is ignored, the rest
\* must be a non-empty run of digits (signs, fractions and exponents are
\* outside the inputs of this model)
FloatParses(s) ==
    LET b == Strip(s) IN b # <<>> /\ \A i \in 1..Len(b) : b[i] \in Digits

\* whether float(v) returns (TypeError on None, ValueError on a bad string)
FloatOk(v) ==
    CASE v.t = "null" -> FALSE
      [] v.t = "str" -> FloatParses(v.s)
      [] OTHER -> TRUE

\* float(v), where FloatOk(v)
ToFloat(v) == IF v.t = "str" THEN Float(DigitsVal(Strip(v.s))) ELSE Float(v.n)

----------------------------------------------------------------------------
(* Environment (module constants read with os.getenv at import time) *)

DEFAULT_SYMBOL == <<"B", "T", "C", "U", "S", "D", ".", "P">>
DEFAULT_TF == <<"1", "m">>
DEFAULT_EXCHANGE == <<"C", "M", "E">>

\* the configured secret of the deployments considered
TheSecret == <<"S">>

\* datetime.now(timezone.utc).isoformat(): a string no request carries
NOW == Str(<<"n", "o", "w">>)

\* app names the deployed program: "rsi_bot" is src/app/app.py, "sandbox" is
\* src/app.py (which does not import the supabase package)
Configs ==
    { c \in [ app             : {"rsi_bot", "sandbox"},
              APP_SECRET      : {<<>>, TheSecret},   \* ALPHAOPS_SECRET
              DISCORD_WEBHOOK : BOOLEAN,     \* DISCORD_WEBHOOK_STATUS is set
              SUPABASE        : BOOLEAN,     \* SUPABASE_URL and key are set
              create_client   : BOOLEAN ] :  \* the supabase import succeeded
        c.app = "sandbox" => ~c.create_client /\ ~c.DISCORD_WEBHOOK }

----------------------------------------------------------------------------
(* str() of a value, used by the validators and by pydantic's str coercion *)

DigitChar(d) ==
    CASE d = 0 -> "0" [] d = 1 -> "1" [] d = 2 -> "2" [] d = 3 -> "3"
      [] d = 4 -> "4" [] d = 5 -> "5" [] d = 6 -> "6" [] d = 7 -> "7"
      [] d = 8 -> "8" [] OTHER -> "9"

RECURSIVE DigitsOf(_)
DigitsOf(n) ==
    IF n < 10 THEN <<DigitChar(n)>>
    ELSE DigitsOf(n \div 10) \o <<DigitChar(n % 10)>>

PyStr(v) ==
    CASE v.t = "str" -> v
      [] v.t = "int" -> Str(DigitsOf(v.n))
      [] v.t = "float" -> Str(DigitsOf(v.n) \o <<".", "0">>)
      [] OTHER -> Str(<<"N", "o", "n", "e">>)

----------------------------------------------------------------------------
(* src/app/app.py: class CmeRsiPayload.  Fields are validated in the order   *)
(* of their declaration; a validator sees in `values` only the fields that  *)
(* were declared, and validated, before its own.                            *)

\* @validator("timestamp", pre=True, always=True)
normalize_timestamp(v, values) ==
    LET ts == Or(v, Get(values, "ts"))
    IN IF ~Truthy(ts) THEN NOW ELSE PyStr(ts)

\* @validator("dist_bps", always=True)
coalesce_dist_bps(v, values) ==
    IF v.t # "null" THEN ToFloat(v)
    ELSE LET d == Get(values, "dist_d_bps")
         IN IF d.t # "null" THEN ToFloat(d) ELSE Float(0)

\* a field annotated Optional[str] = None
OptStrField(raw, key) ==
    LET v == Get(raw, key)
    IN [ok |-> TRUE, v |-> IF v.t = "null" THEN Null ELSE PyStr(v)]

\* a field annotated str = Field(default=dflt): None is not an allowed value
StrField(raw, key, dflt) ==
    IF key \notin DOMAIN raw THEN [ok |-> TRUE, v |-> Str(dflt)]
    ELSE IF raw[key].t = "null" THEN [ok |-> FALSE, v |-> Null]
    ELSE [ok |-> TRUE, v |-> PyStr(raw[key])]

\* a field annotated float = 0.0: None and unparsable strings are errors
FloatField(raw, key) ==
    IF key \notin DOMAIN raw THEN [ok |-> TRUE, v |-> Float(0)]
    ELSE IF FloatOk(raw[key]) THEN [ok |-> TRUE, v |-> ToFloat(raw[key])]
    ELSE [ok |-> FALSE, v |-> Null]

\* a field annotated Optional[float] = Field(default=None)
OptFloatField(raw, key) ==
    LET v == Get(raw, key)
    IN IF v.t = "null" THEN [ok |-> TRUE, v |-> Null]
       ELSE IF FloatOk(v) THEN [ok |-> TRUE, v |-> ToFloat(v)]
       ELSE [ok |-> FALSE, v |-> Null]

\* the entry a validated field adds to `values`
Entry(key, f) == IF f.ok THEN key :> f.v ELSE EmptyObj

\* CmeRsiPayload(**raw) for a dict raw: ok = FALSE is pydantic's
\* ValidationError, otherwise p holds the attributes of the model
CmeRsiPayload(raw) ==
    LET auth == OptStrField(raw, "auth")
        v1 == Entry("auth", auth)
        timestamp == [ok |-> TRUE,
                      v |-> normalize_timestamp(Get(raw, "timestamp"), v1)]
        v2 == v1 @@ Entry("timestamp", timestamp)
        ts == OptStrField(raw, "ts")
        v3 == v2 @@ Entry("ts", ts)
        symbol == StrField(raw, "symbol", DEFAULT_SYMBOL)
        v4 == v3 @@ Entry("symbol", symbol)
        tf == StrField(raw, "tf", DEFAULT_TF)
        v5 == v4 @@ Entry("tf", tf)
        rsi == FloatField(raw, "rsi")
        v6 == v5 @@ Entry("rsi", rsi)
        dist_d_bps == OptFloatField(raw, "dist_d_bps")
        v7 == v6 @@ Entry("dist_d_bps", dist_d_bps)
        db == OptFloatField(raw, "dist_bps")
        dist_bps == IF db.ok THEN [ok |-> TRUE, v |-> coalesce_dist_bps(db.v, v7)]
                    ELSE db
        v8 == v7 @@ Entry("dist_bps", dist_bps)
        exchange == StrField(raw, "exchange", DEFAULT_EXCHANGE)
        v9 == v8 @@ Entry("exchange", exchange)
    IN [ok |-> /\ auth.ok /\ timestamp.ok /\ ts.ok /\ symbol.ok /\ tf.ok
               /\ rsi.ok /\ dist_d_bps.ok /\ dist_bps.ok /\ exchange.ok,
        p |-> v9]

----------------------------------------------------------------------------
(* Requests *)

Absent == [t |-> "absent", s |-> <<>>, n |-> 0]

\* the JSON object holding the keys of f whose value is not Absent
MkObj(f) == [k \in {x \in DOMAIN f : f[x].t # "absent"} |-> f[k]]

\* a request body: kind "text" is a body json.loads rejects (arbitrary text,
\* form-encoded fields, the empty body); "list" and "number" are JSON values
\* that are not objects; "object" is a JSON object, held in obj
Body(kind, obj) == [kind |-> kind, obj |-> obj]
NoBody == Body("none", EmptyObj)

AuthOpts ==
    {Absent, Str(<<>>), Str(TheSecret), Str(TheSecret \o <<" ">>), Str(<<"X">>)}

NumOpts ==
    {Absent, Null, Str(<<>>), Str(<<"a">>), Str(<<" ", "1">>)}
        \cup {Num(k) : k \in 0..MaxNum}

\* requests that vary the timestamp keys
TimeObjs ==
    { [auth |-> a, timestamp |-> x, ts |-> y, t |-> z] :
        a \in AuthOpts,
        x \in {Absent, Str(<<>>), Str(<<"T">>)},
        y \in {Absent, Str(<<"U">>)},
        z \in {Absent, Str(<<"V">>)} }

\* requests that vary the numeric keys
NumObjs ==
    { [auth |-> a, rsi |-> r, dist_d_bps |-> d, dist_bps |-> b] :
        a \in AuthOpts, r \in NumOpts,
        d \in {Absent, Num(MaxNum)},
        b \in {Absent, Num(0)} }

\* requests that vary the identity keys and the older key names
KeyObjs ==
    { [auth |-> a, symbol |-> y, tf |-> f, timeframe |-> g,
       rsi_split_abs |-> o[1], d_bps |-> o[2], timestamp |-> Str(<<"T">>),
       t |-> Str(<<"V">>)] :
        a \in AuthOpts,
        y \in {Absent, Str(<<>>), Str(<<"E">>)},
        f \in {Absent, Str(<<"5">>)},
        g \in {Absent, Str(<<"9">>)},
        o \in {<<Absent, Absent>>, <<Num(MaxNum), Str(<<"a">>)>>} }

Bodies ==
    {Body("text", EmptyObj), Body("list", EmptyObj), Body("number", EmptyObj)}
        \cup {Body("object", MkObj(f)) : f \in TimeObjs \cup NumObjs \cup KeyObjs}

\* the requests of ingest: a body and the X-Alphaops-Auth header (None when
\* the request has none)
IngestRequests ==
    {<<b, Null>> : b \in Bodies}
        \cup {<<Body("object", MkObj(f)), Str(TheSecret)>> : f \in TimeObjs}

\* the requests of the concurrent specification
ConcBodies ==
    {Body("text", EmptyObj),
     Body("object", MkObj([auth |-> Str(TheSecret)]))}

----------------------------------------------------------------------------
(* Tasks *)

IdleTask ==
    [ kind     |-> "idle",    \* "ingest", "ingest_tv", "ready"
      pc       |-> "idle",    \* the statement the task is at
      body     |-> NoBody,    \* the request body
      header   |-> Null,      \* x_alphaops_auth
      payload  |-> EmptyObj,  \* the validated model / the parsed dict
      token    |-> <<>>,      \* the token the auth check compared
      row      |-> EmptyObj,  \* the row composed for the table
      status   |-> 0,         \* HTTP status of the response, 0 = none yet
      resp     |-> "none",    \* the "status" of the response body
      logcalls |-> 0,         \* appends attempted on LOG_PATH
      log      |-> <<>>,      \* lines this request appended to LOG_PATH
      upserts  |-> <<>>,      \* rows handed to the storage upsert
      posts    |-> <<>>,      \* messages posted to the chat webhook
      hist     |-> <<>> ]     \* the stages gone through, in order

\* the task ends with an HTTP response; 500 is an exception leaving the handler
Respond(tk, st, code, resp) ==
    [tk EXCEPT !.pc = "done", !.status = code, !.resp = resp,
               !.hist = Append(tk.hist, st)]

Step(tk, st, pc) == [tk EXCEPT !.pc = pc, !.hist = Append(tk.hist, st)]

----------------------------------------------------------------------------
\* get_supabase without the test of line 110: a client is built on every call
get_supabase_uncached(cur, n, okc) ==
    IF ~cfg.create_client THEN [ok |-> FALSE, sb |-> cur, n |-> n]
    ELSE IF ~cfg.SUPABASE THEN [ok |-> FALSE, sb |-> cur, n |-> n]
    ELSE IF okc THEN [ok |-> TRUE, sb |-> n + 1, n |-> n + 1]
    ELSE [ok |-> FALSE, sb |-> cur, n |-> n]

(* src/app/app.py: get_supabase.  cur is _sb, n the handles built so far,   *)
(* okc whether create_client returns (it raises otherwise).  ok = FALSE is  *)
(* an exception; sb and n are the values of _sb and created afterwards.     *)

get_supabase(cur, n, okc) ==
    IF cur # 0 THEN [ok |-> TRUE, sb |-> cur, n |-> n]
    ELSE IF ~cfg.create_client THEN [ok |-> FALSE, sb |-> cur, n |-> n]
    ELSE IF ~cfg.SUPABASE THEN [ok |-> FALSE, sb |-> cur, n |-> n]
    ELSE IF okc THEN [ok |-> TRUE, sb |-> n + 1, n |-> n + 1]
    ELSE [ok |-> FALSE, sb |-> cur, n |-> n]

----------------------------------------------------------------------------
(* src/app/app.py: ingest *)

\* the routes of the deployed program
Routes == IF cfg.app = "rsi_bot" THEN {"ingest", "ready"} ELSE {"ingest_tv"}

\* a request arrives on a free slot
Receive(i, kind, body, header) ==
    /\ tasks[i].kind = "idle"
    /\ kind \in Routes
    /\ tasks' = [tasks EXCEPT ![i] =
            [IdleTask EXCEPT !.kind = kind, !.pc = "decode",
                             !.body = body, !.header = header]]
    /\ UNCHANGED <<cfg, _sb, created>>

\* Decode with the fallback of a body json.loads rejects to the mapping
\* {"raw": text} instead of the 400 of line 200
DecodeRawFallback(i) ==
    LET tk == tasks[i] IN
    /\ tk.kind = "ingest" /\ tk.pc = "decode"
    /\ tasks' = [tasks EXCEPT ![i] =
            IF tk.body.kind = "text"
            THEN [Step(tk, "decode", "validate") EXCEPT
                    !.body = Body("object", "raw" :> Str(<<>>))]
            ELSE Step(tk, "decode", "validate")]
    /\ UNCHANGED <<cfg, _sb, created>>

\* lines 196-200: await request.body(); json.loads
Decode(i) ==
    LET tk == tasks[i] IN
    /\ tk.kind = "ingest" /\ tk.pc = "decode"
    /\ tasks' = [tasks EXCEPT ![i] =
            IF tk.body.kind = "text" THEN Respond(tk, "decode", 400, "error")
            ELSE Step(tk, "decode", "validate")]
    /\ UNCHANGED <<cfg, _sb, created>>

\* line 202: payload = CmeRsiPayload(**raw); ** of a list or a number is a
\* TypeError, a rejected field a ValidationError: neither is caught
Validate(i) ==
    LET tk == tasks[i]
        r == CmeRsiPayload(tk.body.obj)
    IN
    /\ tk.kind = "ingest" /\ tk.pc = "validate"
    /\ tasks' = [tasks EXCEPT ![i] =
            IF tk.body.kind # "object" THEN Respond(tk, "validate", 500, "error")
            ELSE IF ~r.ok THEN Respond(tk, "validate", 500, "error")
            ELSE [Step(tk, "validate", "auth") EXCEPT !.payload = r.p]]
    /\ UNCHANGED <<cfg, _sb, created>>

\* the token of line 205
Token(header, payload) ==
    Strip(Or(header, Or(payload["auth"], Str(<<>>))).s)

\* line 206 without `not APP_SECRET or`
UnauthorizedTokenOnly(secret, token) == token # secret

\* the condition of line 206
Unauthorized(secret, token) == secret = <<>> \/ token # secret

\* lines 205-207
Authenticate(i) ==
    LET tk == tasks[i]
        token == Token(tk.header, tk.payload)
    IN
    /\ tk.kind = "ingest" /\ tk.pc = "auth"
    /\ tasks' = [tasks EXCEPT ![i] =
            IF Unauthorized(cfg.APP_SECRET, token)
            THEN [Respond(tk, "auth", 401, "error") EXCEPT !.token = token]
            ELSE [Step(tk, "auth", "compose") EXCEPT !.token = token]]
    /\ UNCHANGED <<cfg, _sb, created>>

\* the row of lines 210-218 with a natural_key (symbol, tf, ts) added
ComposeRowKeyed(payload, raw) ==
    [ ts       |-> payload["timestamp"],
      symbol   |-> payload["symbol"],
      tf       |-> payload["tf"],
      exchange |-> payload["exchange"],
      rsi      |-> ToFloat(payload["rsi"]),
      dist_bps |-> ToFloat(payload["dist_bps"]),
      payload  |-> raw,
      natural_key |-> <<payload["symbol"], payload["tf"], payload["timestamp"]>> ]

\* lines 210-218
ComposeRow(payload, raw) ==
    [ ts       |-> payload["timestamp"],
      symbol   |-> payload["symbol"],
      tf       |-> payload["tf"],
      exchange |-> payload["exchange"],
      rsi      |-> ToFloat(payload["rsi"]),
      dist_bps |-> ToFloat(payload["dist_bps"]),
      payload  |-> raw ]

Compose(i) ==
    LET tk == tasks[i] IN
    /\ tk.kind = "ingest" /\ tk.pc = "compose"
    /\ tasks' = [tasks EXCEPT ![i] =
            [Step(tk, "compose", "log") EXCEPT
                !.row = ComposeRow(tk.payload, tk.body.obj)]]
    /\ UNCHANGED <<cfg, _sb, created>>

\* lines 123-129: log_line; a failed write is logged and swallowed
log_line(tk, line, written) ==
    [tk EXCEPT !.logcalls = @ + 1,
               !.log = IF written THEN Append(@, line) ELSE @]

\* line 221 with a log_line that does not catch the failed write
LogLineUnguarded(i) ==
    LET tk == tasks[i] IN
    /\ tk.kind = "ingest" /\ tk.pc = "log"
    /\ \E written \in BOOLEAN :
         tasks' = [tasks EXCEPT ![i] =
            IF written
            THEN Step(log_line(tk, [ingest |-> tk.row], TRUE), "log", "upsert")
            ELSE Respond(log_line(tk, [ingest |-> tk.row], FALSE),
                         "log", 500, "error")]
    /\ UNCHANGED <<cfg, _sb, created>>

\* line 221
LogLine(i) ==
    LET tk == tasks[i] IN
    /\ tk.kind = "ingest" /\ tk.pc = "log"
    /\ \E written \in BOOLEAN :
         tasks' = [tasks EXCEPT ![i] =
            Step(log_line(tk, [ingest |-> tk.row], written), "log", "upsert")]
    /\ UNCHANGED <<cfg, _sb, created>>

\* lines 224-230: get_supabase, then one upsert(row).execute(); every
\* exception of either lands in the except clause
Upsert(i) ==
    LET tk == tasks[i] IN
    /\ tk.kind = "ingest" /\ tk.pc = "upsert"
    /\ \E okc \in BOOLEAN, stored \in BOOLEAN :
         LET g == get_supabase(_sb, created, okc) IN
         /\ _sb' = g.sb
         /\ created' = g.n
         /\ tasks' = [tasks EXCEPT ![i] =
                IF ~g.ok THEN Step(tk, "upsert", "failure")
                ELSE [Step(tk, "upsert", IF stored THEN "summary" ELSE "failure")
                        EXCEPT !.upserts = Append(@, tk.row)]]
    /\ UNCHANGED cfg

\* lines 132-139: send_discord; nothing is posted without a webhook, and a
\* failed post (delivered = FALSE) is logged and swallowed
send_discord(tk, content, delivered) ==
    IF ~cfg.DISCORD_WEBHOOK THEN tk
    ELSE [tk EXCEPT !.posts =
            Append(@, [content |-> content, delivered |-> delivered])]

\* the except clause without the return of line 233: the handler goes on to
\* the status message of line 236
NotifyFailureFallthrough(i) ==
    LET tk == tasks[i] IN
    /\ tk.kind = "ingest" /\ tk.pc = "failure"
    /\ \E delivered \in BOOLEAN :
         tasks' = [tasks EXCEPT ![i] =
            Step(send_discord(tk, "upsert failed", delivered), "notify", "summary")]
    /\ UNCHANGED <<cfg, _sb, created>>

\* lines 232-233: the except clause
NotifyFailure(i) ==
    LET tk == tasks[i] IN
    /\ tk.kind = "ingest" /\ tk.pc = "failure"
    /\ \E delivered \in BOOLEAN :
         tasks' = [tasks EXCEPT ![i] =
            Respond(send_discord(tk, "upsert failed", delivered),
                    "notify", 200, "accepted")]
    /\ UNCHANGED <<cfg, _sb, created>>

\* lines 236-241
NotifySummary(i) ==
    LET tk == tasks[i] IN
    /\ tk.kind = "ingest" /\ tk.pc = "summary"
    /\ \E delivered \in BOOLEAN :
         tasks' = [tasks EXCEPT ![i] =
            Respond(send_discord(tk, "summary", delivered), "notify", 200, "ok")]
    /\ UNCHANGED <<cfg, _sb, created>>

\* lines 160-169: ready
Ready(i) ==
    LET tk == tasks[i] IN
    /\ tk.kind = "ready" /\ tk.pc = "decode"
    /\ \E okc \in BOOLEAN :
         LET g == get_supabase(_sb, created, okc) IN
         /\ _sb' = g.sb
         /\ created' = g.n
         /\ tasks' = [tasks EXCEPT ![i] =
                IF g.ok THEN Respond(tk, "ready", 200, "ok")
                ELSE Respond(tk, "ready", 500, "error")]
    /\ UNCHANGED cfg

\* the response is sent and the slot is free for the next request
Finish(i) ==
    /\ tasks[i].pc = "done"
    /\ tasks' = [tasks EXCEPT ![i] = IdleTask]
    /\ UNCHANGED <<cfg, _sb, created>>

----------------------------------------------------------------------------
(* src/app.py: upsert_cme_to_supabase *)

\* lines 23-27
RsiVal(payload) == Or(Get(payload, "rsi_split_abs"), Get(payload, "rsi"))
DistVal(payload) == Or(Get(payload, "dist_d_bps"), Get(payload, "d_bps"))

\* float(x) if x is not None else None
FloatOrNone(v) == IF v.t # "null" THEN ToFloat(v) ELSE Null

\* whether building the row of lines 29-37 raises (float() of a bad string)
RowRaises(payload) ==
    \/ RsiVal(payload).t # "null" /\ ~FloatOk(RsiVal(payload))
    \/ DistVal(payload).t # "null" /\ ~FloatOk(DistVal(payload))

\* lines 23-37, where ~RowRaises(payload)
UpsertRow(payload) ==
    [ ts       |-> Get(payload, "t"),
      symbol   |-> PyStr(Or(Get(payload, "symbol"), Str(DEFAULT_SYMBOL))),
      tf       |-> PyStr(Or(Get(payload, "tf"),
                            Or(Get(payload, "timeframe"), Str(DEFAULT_TF)))),
      exchange |-> Or(Get(payload, "exchange"), Str(DEFAULT_EXCHANGE)),
      rsi      |-> FloatOrNone(RsiVal(payload)),
      dist_bps |-> FloatOrNone(DistVal(payload)),
      payload  |-> payload ]

----------------------------------------------------------------------------
(* src/app.py: ingest_tv *)

\* lines 53-57
TvDecode(i) ==
    LET tk == tasks[i] IN
    /\ tk.kind = "ingest_tv" /\ tk.pc = "decode"
    /\ tasks' = [tasks EXCEPT ![i] =
            IF tk.body.kind = "text" THEN Respond(tk, "decode", 400, "error")
            ELSE [Step(tk, "decode", "auth") EXCEPT !.payload = tk.body.obj]]
    /\ UNCHANGED <<cfg, _sb, created>>

\* the condition of line 59: payload.get("auth") != APP_SECRET
TvUnauthorized(secret, payload) == Get(payload, "auth") # Str(secret)

\* lines 59-60; .get of a list or a number is an AttributeError, not caught
TvAuth(i) ==
    LET tk == tasks[i] IN
    /\ tk.kind = "ingest_tv" /\ tk.pc = "auth"
    /\ tasks' = [tasks EXCEPT ![i] =
            IF tk.body.kind # "object" THEN Respond(tk, "auth", 500, "error")
            ELSE IF TvUnauthorized(cfg.APP_SECRET, tk.payload)
            THEN Respond(tk, "auth", 401, "error")
            ELSE Step(tk, "auth", "log")]
    /\ UNCHANGED <<cfg, _sb, created>>

\* lines 63-65: the append is not guarded, a failed write leaves the handler
TvLog(i) ==
    LET tk == tasks[i] IN
    /\ tk.kind = "ingest_tv" /\ tk.pc = "log"
    /\ \E written \in BOOLEAN :
         tasks' = [tasks EXCEPT ![i] =
            IF written
            THEN Step([tk EXCEPT !.logcalls = @ + 1, !.log = Append(@, tk.payload)],
                      "log", "upsert")
            ELSE Respond([tk EXCEPT !.logcalls = @ + 1], "log", 500, "error")]
    /\ UNCHANGED <<cfg, _sb, created>>

\* lines 68-70 with lines 16-49: nothing is sent when the store is not
\* configured; an exception of the row's construction or of the POST is
\* caught at line 70
TvUpsert(i) ==
    LET tk == tasks[i] IN
    /\ tk.kind = "ingest_tv" /\ tk.pc = "upsert"
    /\ \E stored \in BOOLEAN :
         tasks' = [tasks EXCEPT ![i] =
            IF ~cfg.SUPABASE THEN Step(tk, "upsert", "return")
            ELSE IF RowRaises(tk.payload) THEN Step(tk, "upsert", "except")
            ELSE [Step(tk, "upsert", IF stored THEN "return" ELSE "except")
                    EXCEPT !.row = UpsertRow(tk.payload),
                           !.upserts = Append(@, UpsertRow(tk.payload))]]
    /\ UNCHANGED <<cfg, _sb, created>>

\* the body of the except clause of line 70 and the return of the handler
\* are not in the source: the failure is swallowed and the request is
\* acknowledged
TvReturn(i) ==
    LET tk == tasks[i] IN
    /\ tk.kind = "ingest_tv" /\ tk.pc \in {"return", "except"}
    /\ tasks' = [tasks EXCEPT ![i] = Respond(tk, "return", 200, "ok")]
    /\ UNCHANGED <<cfg, _sb, created>>

----------------------------------------------------------------------------
(* Specifications *)

Slots == {1}
ConcSlots == 1..NumTasks

\* one request at a time, over every request of Bodies
Init ==
    /\ cfg \in Configs
    /\ _sb = 0
    /\ created = 0
    /\ tasks = [i \in Slots |-> IdleTask]

Arrive(i) ==
    \/ \E r \in IngestRequests : Receive(i, "ingest", r[1], r[2])
    \/ \E body \in Bodies : Receive(i, "ingest_tv", body, Null)
    \/ Receive(i, "ready", NoBody, Null)

Next ==
    \/ \E i \in Slots : Arrive(i)
    \/ \E i \in Slots : Decode(i)
    \/ \E i \in Slots : Validate(i)
    \/ \E i \in Slots : Authenticate(i)
    \/ \E i \in Slots : Compose(i)
    \/ \E i \in Slots : LogLine(i)
    \/ \E i \in Slots : Upsert(i)
    \/ \E i \in Slots : NotifyFailure(i)
    \/ \E i \in Slots : NotifySummary(i)
    \/ \E i \in Slots : Ready(i)
    \/ \E i \in Slots : TvDecode(i)
    \/ \E i \in Slots : TvAuth(i)
    \/ \E i \in Slots : TvLog(i)
    \/ \E i \in Slots : TvUpsert(i)
    \/ \E i \in Slots : TvReturn(i)
    \/ \E i \in Slots : Finish(i)

Spec == Init /\ [][Next]_vars

\* NumTasks requests of src/app/app.py interleaved at their await points
InitConc ==
    /\ cfg \in {c \in Configs : c.app = "rsi_bot" /\ c.APP_SECRET = TheSecret}
    /\ _sb = 0
    /\ created = 0
    /\ tasks = [i \in ConcSlots |-> IdleTask]

ArriveConc(i) ==
    \/ \E body \in ConcBodies : Receive(i, "ingest", body, Null)
    \/ Receive(i, "ready", NoBody, Null)

NextConc ==
    \/ \E i \in ConcSlots : ArriveConc(i)
    \/ \E i \in ConcSlots : Decode(i)
    \/ \E i \in ConcSlots : Validate(i)
    \/ \E i \in ConcSlots : Authenticate(i)
    \/ \E i \in ConcSlots : Compose(i)
    \/ \E i \in ConcSlots : LogLine(i)
    \/ \E i \in ConcSlots : Upsert(i)
    \/ \E i \in ConcSlots : NotifyFailure(i)
    \/ \E i \in ConcSlots : NotifySummary(i)
    \/ \E i \in ConcSlots : Ready(i)
    \/ \E i \in ConcSlots : Finish(i)

SpecConc == InitConc /\ [][NextConc]_vars

----------------------------------------------------------------------------
(* Properties *)

Stages(tk) == {tk.hist[k] : k \in 1..Len(tk.hist)}
Done(tk) == tk.pc = "done"
Handlers == {"ingest", "ingest_tv"}
NoSideEffects(tk) == tk.logcalls = 0 /\ tk.upserts = <<>> /\ tk.posts = <<>>
Contents(posts) == [k \in 1..Len(posts) |-> posts[k].content]

\* the auth value a request with a JSON object body presents: for ingest the
\* header, else the body's auth, stripped; for ingest_tv the body's auth
AuthValue(tk) ==
    IF tk.kind = "ingest"
    THEN Str(Strip(Or(tk.header, Or(Get(tk.body.obj, "auth"), Str(<<>>))).s))
    ELSE Get(tk.body.obj, "auth")

WrongSecret(tk) ==
    /\ cfg.APP_SECRET # <<>>
    /\ tk.body.kind = "object"
    /\ AuthValue(tk) # Str(cfg.APP_SECRET)

\* C1: with a secret configured, a request whose auth value differs from it
\* ends with 401 and appends no log line, attempts no upsert and posts no
\* notification
C1_WrongSecretIs401 ==
    \A i \in DOMAIN tasks :
        LET tk == tasks[i] IN
        tk.kind \in Handlers /\ WrongSecret(tk) =>
            NoSideEffects(tk) /\ (Done(tk) => tk.status = 401)

\* the request passed the auth check of ingest (and so the field mapping)
Accepted(tk) ==
    tk.kind = "ingest" /\ "auth" \in Stages(tk) /\ tk.status # 401

\* C2: once ingest has authenticated and mapped a request, the request can
\* always go on and ends with HTTP 200 and status "ok" or "accepted",
\* whatever the log append, the storage client, the upsert and the post did
C2_AlwaysAcknowledged ==
    \A i \in DOMAIN tasks :
        LET tk == tasks[i] IN
        Accepted(tk) =>
            /\ Done(tk) => tk.status = 200 /\ tk.resp \in {"ok", "accepted"}
            /\ ~Done(tk) =>
                 ENABLED (Compose(i) \/ LogLine(i) \/ Upsert(i)
                            \/ NotifyFailure(i) \/ NotifySummary(i))

\* an acknowledged request whose log append failed, whose storage client
\* could not be obtained and whose notification post failed
C2_Witness ==
    \E i \in DOMAIN tasks :
        LET tk == tasks[i] IN
        /\ Accepted(tk) /\ Done(tk) /\ tk.status = 200
        /\ tk.logcalls = 1 /\ tk.log = <<>>
        /\ tk.upserts = <<>>
        /\ Len(tk.posts) = 1 /\ ~tk.posts[1].delivered

C5_NumericFieldsDefault ==
    \A i \in DOMAIN tasks :
        LET tk == tasks[i] IN
        /\ DOMAIN tk.row # {} =>
             tk.row.rsi.t = "float" /\ tk.row.dist_bps.t = "float"
        /\ tk.kind = "ingest" /\ tk.body.kind = "object" /\ Done(tk) =>
             tk.status # 500
        /\ tk.kind = "ingest_tv" /\ "upsert" \in Stages(tk) /\ cfg.SUPABASE =>
             DOMAIN tk.row # {}

\* the ts C6 states for a request: timestamp, else ts, else the clock
ExpectedTs(raw) ==
    IF Truthy(Get(raw, "timestamp")) THEN Get(raw, "timestamp")
    ELSE IF Truthy(Get(raw, "ts")) THEN Get(raw, "ts")
    ELSE NOW

\* C6: the ts of every row of ingest is non-null and is the request's
\* timestamp, else the request's ts, else the server's clock
C6_TsResolution ==
    \A i \in DOMAIN tasks :
        LET tk == tasks[i] IN
        tk.kind = "ingest" /\ DOMAIN tk.row # {} =>
            tk.row.ts # Null /\ tk.row.ts = ExpectedTs(tk.body.obj)

RowKeys == {"ts", "symbol", "tf", "exchange", "rsi", "dist_bps", "payload"}

\* the value of a key the request holds, else the default
KeyOr(raw, key, dflt) == IF key \in DOMAIN raw THEN raw[key] ELSE Str(dflt)

\* the value of a key the request holds non-empty, else the default
TruthyOr(raw, key, dflt) ==
    IF Truthy(Get(raw, key)) THEN raw[key] ELSE Str(dflt)

Rank(st) ==
    CASE st = "decode" -> 1
      [] st = "auth" -> 2
      [] st \in {"validate", "compose"} -> 3
      [] st = "log" -> 4
      [] st = "upsert" -> 5
      [] st = "notify" -> 6
      [] OTHER -> 0

\* C8: a request of ingest goes through body recovery, auth check, field
\* mapping, log append, upsert, notification in that order, and a request
\* with a wrong secret is never answered with anything but 401
C8_StageOrder ==
    \A i \in DOMAIN tasks :
        LET tk == tasks[i] IN
        tk.kind = "ingest" =>
            /\ \A a, b \in 1..Len(tk.hist) :
                 a < b => Rank(tk.hist[a]) <= Rank(tk.hist[b])
            /\ WrongSecret(tk) /\ Done(tk) => tk.status = 401

\* C9: create_client builds at most one handle; once _sb is set no step
\* changes it or builds another
C9_SingleClient ==
    [][ /\ created' <= 1
        /\ _sb # 0 => _sb' = _sb /\ created' = created ]_vars

\* two requests in flight at once, both past their upsert on the one handle
C9_Witness ==
    /\ created = 1 /\ _sb = 1
    /\ \E i, j \in DOMAIN tasks :
         /\ i # j
         /\ tasks[i].pc \in {"summary", "failure"} /\ Len(tasks[i].upserts) = 1
         /\ tasks[j].pc \in {"summary", "failure"} /\ Len(tasks[j].upserts) = 1

\* C10 as stated: at most one log append, one upsert call and one post per
\* request; exactly one post, the failure message, when the upsert failed and
\* exactly one, the summary, when it succeeded
C10_SingleAttempt ==
    \A i \in DOMAIN tasks :
        LET tk == tasks[i] IN
        tk.kind = "ingest" =>
            /\ tk.logcalls <= 1 /\ Len(tk.upserts) <= 1 /\ Len(tk.posts) <= 1
            /\ Done(tk) /\ tk.resp = "accepted" =>
                 Contents(tk.posts) = <<"upsert failed">>
            /\ Done(tk) /\ tk.resp = "ok" => Contents(tk.posts) = <<"summary">>

\* C10 amended: the same, where the one post is made only if a webhook is
\* configured; without a webhook the request posts nothing
C10_SingleAttemptIfWebhook ==
    \A i \in DOMAIN tasks :
        LET tk == tasks[i] IN
        tk.kind = "ingest" =>
            /\ tk.logcalls <= 1 /\ Len(tk.upserts) <= 1 /\ Len(tk.posts) <= 1
            /\ ~cfg.DISCORD_WEBHOOK => tk.posts = <<>>
            /\ cfg.DISCORD_WEBHOOK /\ Done(tk) /\ tk.resp = "accepted" =>
                 Contents(tk.posts) = <<"upsert failed">>
            /\ cfg.DISCORD_WEBHOOK /\ Done(tk) /\ tk.resp = "ok" =>
                 Contents(tk.posts) = <<"summary">>

\* a request whose upsert call failed and which posted the failure message
C10_Witness ==
    \E i \in DOMAIN tasks :
        LET tk == tasks[i] IN
        /\ tk.kind = "ingest" /\ Done(tk) /\ tk.resp = "accepted"
        /\ tk.logcalls = 1 /\ Len(tk.upserts) = 1
        /\ Contents(tk.posts) = <<"upsert failed">>

====
